---------------------------- MODULE Spec2Model ----------------------------
(***************************************************************************)
(* Model of pyradox/convnets.py: the two topology builders                 *)
(* GeneralizedDenseNets and GeneralizedVGG, and their presets.             *)
(*                                                                         *)
(* A builder object is constructed once (__init__ stores its arguments in  *)
(* fields) and is then invoked (__call__) on an input tensor handle.  An   *)
(* invocation is a straight-line program that threads the local x through  *)
(* a chain of layer applications  x = L(args)(x).  The layers themselves   *)
(* (keras.layers and pyradox.modules) are opaque: applying one yields a    *)
(* fresh tensor handle.  Every application is recorded in trace with the   *)
(* layer's name, its constructor arguments, the handle it was applied to   *)
(* and the handle it returned.                                             *)
(*                                                                         *)
(* Number encoding: Python floats are kept as scaled integers that are     *)
(* only ever stored and passed on: reduction in 1/100 (0.5 is 50), epsilon *)
(* in 1e-8 (1.001e-5 is 1001), dropout in 1/10.                            *)
(***************************************************************************)
EXTENDS Integers, Sequences, FiniteSets

VARIABLES
    cls,      \* class of the constructed object, "None" before construction
    ctor,     \* the arguments the constructor was called with
    self,     \* the object's fields
    pc,       \* position of control
    inputs,   \* argument of the running / last __call__
    x,        \* local x of __call__
    i,        \* index of the outer loop (stage)
    j,        \* index of the inner loop (repetition within a stage)
    trace,    \* layer applications of the running / last __call__
    result,   \* value returned by the last completed __call__
    ncalls,   \* number of invocations started
    prev,     \* <<>> or <<[inputs, trace]>> of the invocation before this one
    nh        \* next fresh tensor handle of the framework

vars == <<cls, ctor, self, pc, inputs, x, i, j, trace, result, ncalls, prev, nh>>

---------------------------------------------------------------------------
(* Bounds of the model *)

MaxStages == 2      \* longest stage sequence handed to a generic builder
MaxCount == 2       \* largest repeat count in a DenseNet stage sequence
MaxCalls == 2       \* invocations of one builder object

(* Input domains *)

InputHandles == {0, 1}
FirstFresh == Cardinality(InputHandles)
NoHandle == 0 - 1

Counts == {0 - 1} \cup (0 .. MaxCount)

SeqsUpTo(S, n) == UNION {[1..k -> S] : k \in 0..n}

BlockSeqs == SeqsUpTo(Counts, MaxStages)

DenseNetHyper ==
    { [growth_rate |-> 32, reduction |-> 50, epsilon |-> 1001,
       activation |-> "relu", use_bias |-> FALSE],
      [growth_rate |-> 12, reduction |-> 25, epsilon |-> 100000,
       activation |-> "elu", use_bias |-> TRUE],
      [growth_rate |-> 32, reduction |-> 25, epsilon |-> 1001,
       activation |-> "selu", use_bias |-> FALSE] }

ConvPairs == { <<2, 64>>, <<0 - 1, 128>>, <<3, 0>> }
DenseWidths == { 4096, 0 }
ConvConfigs == SeqsUpTo(ConvPairs, MaxStages)
DenseConfigs == SeqsUpTo(DenseWidths, MaxStages)

VGGToggles ==
    { [conv_batch_norm |-> FALSE, conv_dropout |-> 0, conv_activation |-> "relu",
       dense_batch_norm |-> FALSE, dense_dropout |-> 0, dense_activation |-> "relu"],
      [conv_batch_norm |-> TRUE, conv_dropout |-> 2, conv_activation |-> "elu",
       dense_batch_norm |-> FALSE, dense_dropout |-> 5, dense_activation |-> "tanh"],
      [conv_batch_norm |-> FALSE, conv_dropout |-> 0, conv_activation |-> "relu",
       dense_batch_norm |-> TRUE, dense_dropout |-> 5, dense_activation |-> "relu"] }

DenseNetClasses ==
    { "GeneralizedDenseNets",
      "DenselyConnectedConvolutionalNetwork121",
      "DenselyConnectedConvolutionalNetwork169",
      "DenselyConnectedConvolutionalNetwork201" }

VGGClasses == { "GeneralizedVGG", "VGG16", "VGG19" }

---------------------------------------------------------------------------
(* Construction *)

Init ==
    /\ cls = "None"
    /\ ctor = <<>>
    /\ self = <<>>
    /\ pc = "new"
    /\ inputs = NoHandle
    /\ x = NoHandle
    /\ i = 0
    /\ j = 0
    /\ trace = <<>>
    /\ result = NoHandle
    /\ ncalls = 0
    /\ prev = <<>>
    /\ nh = FirstFresh

\* The part of the state no constructor touches.
CallStateUnchanged == UNCHANGED <<inputs, x, i, j, trace, result, ncalls, prev, nh>>

\* GeneralizedDenseNets.__init__: every argument is stored in its field.
GeneralizedDenseNetsInit(blocks, growth_rate, reduction, epsilon, activation, use_bias) ==
    self' = [ blocks |-> blocks,
              growth_rate |-> growth_rate,
              reduction |-> reduction,
              epsilon |-> epsilon,
              activation |-> activation,
              use_bias |-> use_bias ]

DenseNet121Init(growth_rate, reduction, epsilon, activation, use_bias) ==
    GeneralizedDenseNetsInit(<<6, 12, 24, 16>>, growth_rate, reduction, epsilon,
                             activation, use_bias)

\* Fault: the 169 preset carries the repeat counts of the 121 preset.
DenseNet169InitWith121Counts(growth_rate, reduction, epsilon, activation, use_bias) ==
    GeneralizedDenseNetsInit(<<6, 12, 24, 16>>, growth_rate, reduction, epsilon,
                             activation, use_bias)

DenseNet169Init(growth_rate, reduction, epsilon, activation, use_bias) ==
    GeneralizedDenseNetsInit(<<6, 12, 32, 32>>, growth_rate, reduction, epsilon,
                             activation, use_bias)

DenseNet201Init(growth_rate, reduction, epsilon, activation, use_bias) ==
    GeneralizedDenseNetsInit(<<6, 12, 48, 32>>, growth_rate, reduction, epsilon,
                             activation, use_bias)

NewGeneralizedDenseNets ==
    /\ pc = "new"
    /\ \E blocks \in BlockSeqs, h \in DenseNetHyper :
         /\ ctor' = [ blocks |-> blocks, growth_rate |-> h.growth_rate,
                      reduction |-> h.reduction, epsilon |-> h.epsilon,
                      activation |-> h.activation, use_bias |-> h.use_bias ]
         /\ GeneralizedDenseNetsInit(blocks, h.growth_rate, h.reduction, h.epsilon,
                                     h.activation, h.use_bias)
    /\ cls' = "GeneralizedDenseNets"
    /\ pc' = "idle"
    /\ CallStateUnchanged

NewDenseNet121 ==
    /\ pc = "new"
    /\ \E h \in DenseNetHyper :
         /\ ctor' = h
         /\ DenseNet121Init(h.growth_rate, h.reduction, h.epsilon, h.activation,
                            h.use_bias)
    /\ cls' = "DenselyConnectedConvolutionalNetwork121"
    /\ pc' = "idle"
    /\ CallStateUnchanged

NewDenseNet169 ==
    /\ pc = "new"
    /\ \E h \in DenseNetHyper :
         /\ ctor' = h
         /\ DenseNet169Init(h.growth_rate, h.reduction, h.epsilon, h.activation,
                            h.use_bias)
    /\ cls' = "DenselyConnectedConvolutionalNetwork169"
    /\ pc' = "idle"
    /\ CallStateUnchanged

NewDenseNet201 ==
    /\ pc = "new"
    /\ \E h \in DenseNetHyper :
         /\ ctor' = h
         /\ DenseNet201Init(h.growth_rate, h.reduction, h.epsilon, h.activation,
                            h.use_bias)
    /\ cls' = "DenselyConnectedConvolutionalNetwork201"
    /\ pc' = "idle"
    /\ CallStateUnchanged

\* GeneralizedVGG.__init__: every argument is stored in its field.
GeneralizedVGGInit(conv_config, dense_config, conv_batch_norm, conv_dropout, conv_activation, dense_batch_norm, dense_dropout, dense_activation, kwargs) ==
    self' = [ conv_config |-> conv_config,
              dense_config |-> dense_config,
              conv_batch_norm |-> conv_batch_norm,
              conv_dropout |-> conv_dropout,
              conv_activation |-> conv_activation,
              dense_batch_norm |-> dense_batch_norm,
              dense_dropout |-> dense_dropout,
              dense_activation |-> dense_activation,
              kwargs |-> kwargs ]

\* Fault: use_dense is ignored.
VGG16InitAlwaysDense(conv_batch_norm, conv_dropout, conv_activation, use_dense, dense_batch_norm, dense_dropout, dense_activation, kwargs) ==
    LET conv_config == << <<2, 64>>, <<2, 128>>, <<3, 256>>, <<3, 512>>, <<3, 512>> >>
        dense_config == <<4096, 4096>>
    IN  GeneralizedVGGInit(conv_config, dense_config, conv_batch_norm, conv_dropout,
                           conv_activation, dense_batch_norm, dense_dropout,
                           dense_activation, kwargs)

VGG16Init(conv_batch_norm, conv_dropout, conv_activation, use_dense, dense_batch_norm, dense_dropout, dense_activation, kwargs) ==
    LET conv_config == << <<2, 64>>, <<2, 128>>, <<3, 256>>, <<3, 512>>, <<3, 512>> >>
        dense_config == IF use_dense THEN <<4096, 4096>> ELSE <<>>
    IN  GeneralizedVGGInit(conv_config, dense_config, conv_batch_norm, conv_dropout,
                           conv_activation, dense_batch_norm, dense_dropout,
                           dense_activation, kwargs)

VGG19Init(conv_batch_norm, conv_dropout, conv_activation, use_dense, dense_batch_norm, dense_dropout, dense_activation, kwargs) ==
    LET conv_config == << <<2, 64>>, <<2, 128>>, <<4, 256>>, <<4, 512>>, <<4, 512>> >>
        dense_config == IF use_dense THEN <<4096, 4096>> ELSE <<>>
    IN  GeneralizedVGGInit(conv_config, dense_config, conv_batch_norm, conv_dropout,
                           conv_activation, dense_batch_norm, dense_dropout,
                           dense_activation, kwargs)

\* Keyword arguments a caller may add to a preset (names only).
KwargSets == { {}, {"name"} }

NewGeneralizedVGG ==
    /\ pc = "new"
    /\ \E cc \in ConvConfigs, dc \in DenseConfigs, t \in VGGToggles :
         /\ ctor' = [ conv_config |-> cc, dense_config |-> dc, toggles |-> t,
                      kwargs |-> {} ]
         /\ GeneralizedVGGInit(cc, dc, t.conv_batch_norm, t.conv_dropout,
                               t.conv_activation, t.dense_batch_norm,
                               t.dense_dropout, t.dense_activation, {})
    /\ cls' = "GeneralizedVGG"
    /\ pc' = "idle"
    /\ CallStateUnchanged

NewVGG16 ==
    /\ pc = "new"
    /\ \E t \in VGGToggles, use_dense \in BOOLEAN, kw \in KwargSets :
         /\ ctor' = [ use_dense |-> use_dense, toggles |-> t, kwargs |-> kw ]
         /\ VGG16Init(t.conv_batch_norm, t.conv_dropout, t.conv_activation,
                      use_dense, t.dense_batch_norm, t.dense_dropout,
                      t.dense_activation, kw)
    /\ cls' = "VGG16"
    /\ pc' = "idle"
    /\ CallStateUnchanged

NewVGG19 ==
    /\ pc = "new"
    /\ \E t \in VGGToggles, use_dense \in BOOLEAN, kw \in KwargSets :
         /\ ctor' = [ use_dense |-> use_dense, toggles |-> t, kwargs |-> kw ]
         /\ VGG19Init(t.conv_batch_norm, t.conv_dropout, t.conv_activation,
                      use_dense, t.dense_batch_norm, t.dense_dropout,
                      t.dense_activation, kw)
    /\ cls' = "VGG19"
    /\ pc' = "idle"
    /\ CallStateUnchanged

---------------------------------------------------------------------------
(* Invocation *)

\* x = L(args)(x): construct the layer, apply it to the current x, bind the
\* handle it returns to x.
Apply(layer, args) ==
    /\ trace' = Append(trace, [ layer |-> layer, args |-> args, in |-> x, out |-> nh ])
    /\ x' = nh
    /\ nh' = nh + 1

\* What no step of __call__ assigns: the object and the bookkeeping of calls.
ObjectUnchanged == UNCHANGED <<cls, ctor, self, inputs, ncalls, prev>>

\* Entry of __call__ (both classes): x = inputs.  The invocation that ended
\* before is remembered in prev.
Call ==
    /\ pc \in {"idle", "done"}
    /\ ncalls < MaxCalls
    /\ \E h \in InputHandles :
         /\ inputs' = h
         /\ x' = h
    /\ prev' = IF pc = "done" THEN << [ inputs |-> inputs, trace |-> trace ] >> ELSE prev
    /\ trace' = <<>>
    /\ i' = 0
    /\ j' = 0
    /\ ncalls' = ncalls + 1
    /\ pc' = IF cls \in DenseNetClasses THEN "stem_pad1" ELSE "conv"
    /\ UNCHANGED <<cls, ctor, self, result, nh>>

(* GeneralizedDenseNets.__call__ *)

StemPad1 ==
    /\ pc = "stem_pad1"
    /\ Apply("ZeroPadding2D", [ padding |-> << <<3, 3>>, <<3, 3>> >> ])
    /\ pc' = "stem_conv"
    /\ UNCHANGED <<i, j, result>>
    /\ ObjectUnchanged

StemConv ==
    /\ pc = "stem_conv"
    /\ Apply("Conv2D", [ filters |-> 64, kernel_size |-> 7, strides |-> 2,
                         use_bias |-> self.use_bias ])
    /\ pc' = "stem_bn"
    /\ UNCHANGED <<i, j, result>>
    /\ ObjectUnchanged

StemBatchNorm ==
    /\ pc = "stem_bn"
    /\ Apply("BatchNormalization", [ epsilon |-> self.epsilon ])
    /\ pc' = "stem_act"
    /\ UNCHANGED <<i, j, result>>
    /\ ObjectUnchanged

StemActivation ==
    /\ pc = "stem_act"
    /\ Apply("Activation", [ activation |-> self.activation ])
    /\ pc' = "stem_pad2"
    /\ UNCHANGED <<i, j, result>>
    /\ ObjectUnchanged

\* Fault: the second padding is applied to the input instead of x.
StemPad2OnInputs ==
    /\ pc = "stem_pad2"
    /\ trace' = Append(trace, [ layer |-> "ZeroPadding2D",
                                args |-> [ padding |-> << <<1, 1>>, <<1, 1>> >> ],
                                in |-> inputs, out |-> nh ])
    /\ x' = nh
    /\ nh' = nh + 1
    /\ pc' = "stem_pool"
    /\ UNCHANGED <<i, j, result>>
    /\ ObjectUnchanged

StemPad2 ==
    /\ pc = "stem_pad2"
    /\ Apply("ZeroPadding2D", [ padding |-> << <<1, 1>>, <<1, 1>> >> ])
    /\ pc' = "stem_pool"
    /\ UNCHANGED <<i, j, result>>
    /\ ObjectUnchanged

StemPool ==
    /\ pc = "stem_pool"
    /\ Apply("MaxPooling2D", [ pool_size |-> 3, strides |-> 2 ])
    /\ pc' = "stages"
    /\ i' = 0
    /\ j' = 0
    /\ UNCHANGED result
    /\ ObjectUnchanged

\* Fault: the repeat count is taken by magnitude.
GrowthBlockByMagnitude ==
    /\ pc = "stages"
    /\ i < Len(self.blocks)
    /\ j < (IF self.blocks[i + 1] < 0 THEN 0 - self.blocks[i + 1] ELSE self.blocks[i + 1])
    /\ Apply("DenseNetConvolutionBlock", [ growth_rate |-> self.growth_rate ])
    /\ j' = j + 1
    /\ UNCHANGED <<pc, i, result>>
    /\ ObjectUnchanged

\* Fault: the loop counts down in the field itself.
GrowthBlockConsumesField ==
    /\ pc = "stages"
    /\ i < Len(self.blocks)
    /\ 0 < self.blocks[i + 1]
    /\ Apply("DenseNetConvolutionBlock", [ growth_rate |-> self.growth_rate ])
    /\ self' = [ self EXCEPT !.blocks[i + 1] = @ - 1 ]
    /\ UNCHANGED <<pc, i, j, result>>
    /\ UNCHANGED <<cls, ctor, inputs, ncalls, prev>>

\* Body of the inner loop: for _ in range(self.blocks[i]).  range(n) is empty
\* for n <= 0.
GrowthBlock ==
    /\ pc = "stages"
    /\ i < Len(self.blocks)
    /\ j < self.blocks[i + 1]
    /\ Apply("DenseNetConvolutionBlock", [ growth_rate |-> self.growth_rate ])
    /\ j' = j + 1
    /\ UNCHANGED <<pc, i, result>>
    /\ ObjectUnchanged

\* Fault: a transition block between stages only, none after the last one.
TransitionBlockBetweenStages ==
    /\ pc = "stages"
    /\ i < Len(self.blocks)
    /\ ~ (j < self.blocks[i + 1])
    /\ IF i + 1 < Len(self.blocks)
         THEN Apply("DenseNetTransitionBlock", [ reduction |-> self.reduction ])
         ELSE UNCHANGED <<x, trace, nh>>
    /\ i' = i + 1
    /\ j' = 0
    /\ UNCHANGED <<pc, result>>
    /\ ObjectUnchanged

\* After the inner loop of stage i: one transition block, then the next i.
TransitionBlock ==
    /\ pc = "stages"
    /\ i < Len(self.blocks)
    /\ ~ (j < self.blocks[i + 1])
    /\ Apply("DenseNetTransitionBlock", [ reduction |-> self.reduction ])
    /\ i' = i + 1
    /\ j' = 0
    /\ UNCHANGED <<pc, result>>
    /\ ObjectUnchanged

\* Fault: the tail is reached only through a stage.
FinalBatchNormAfterAStage ==
    /\ pc = "stages"
    /\ ~ (i < Len(self.blocks))
    /\ i > 0
    /\ Apply("BatchNormalization", [ epsilon |-> self.epsilon ])
    /\ pc' = "final_act"
    /\ UNCHANGED <<i, j, result>>
    /\ ObjectUnchanged

\* After the outer loop.
FinalBatchNorm ==
    /\ pc = "stages"
    /\ ~ (i < Len(self.blocks))
    /\ Apply("BatchNormalization", [ epsilon |-> self.epsilon ])
    /\ pc' = "final_act"
    /\ UNCHANGED <<i, j, result>>
    /\ ObjectUnchanged

FinalActivation ==
    /\ pc = "final_act"
    /\ Apply("Activation", [ activation |-> self.activation ])
    /\ pc' = "return"
    /\ UNCHANGED <<i, j, result>>
    /\ ObjectUnchanged

(* GeneralizedVGG.__call__ *)

\* Fault: the pair is unpacked the wrong way round.
ConvStageSwapped ==
    /\ pc = "conv"
    /\ i < Len(self.conv_config)
    /\ LET num_filters == self.conv_config[i + 1][1]
           num_conv == self.conv_config[i + 1][2]
       IN  Apply("VGGModule", [ num_conv |-> num_conv,
                                num_filters |-> num_filters,
                                batch_normalization |-> self.conv_batch_norm,
                                dropout |-> self.conv_dropout,
                                activation |-> self.conv_activation ])
    /\ i' = i + 1
    /\ UNCHANGED <<pc, j, result>>
    /\ ObjectUnchanged

\* Body of the first loop: for num_conv, num_filters in self.conv_config.
ConvStage ==
    /\ pc = "conv"
    /\ i < Len(self.conv_config)
    /\ LET num_conv == self.conv_config[i + 1][1]
           num_filters == self.conv_config[i + 1][2]
       IN  Apply("VGGModule", [ num_conv |-> num_conv,
                                num_filters |-> num_filters,
                                batch_normalization |-> self.conv_batch_norm,
                                dropout |-> self.conv_dropout,
                                activation |-> self.conv_activation ])
    /\ i' = i + 1
    /\ UNCHANGED <<pc, j, result>>
    /\ ObjectUnchanged

\* if len(self.dense_config) > 0: x = layers.Flatten()(x)
FlattenStep ==
    /\ pc = "conv"
    /\ ~ (i < Len(self.conv_config))
    /\ Len(self.dense_config) > 0
    /\ Apply("Flatten", <<>>)
    /\ pc' = "dense"
    /\ j' = 0
    /\ UNCHANGED <<i, result>>
    /\ ObjectUnchanged

\* Fault: Flatten is applied unconditionally.
FlattenAnyway ==
    /\ pc = "conv"
    /\ ~ (i < Len(self.conv_config))
    /\ ~ (Len(self.dense_config) > 0)
    /\ Apply("Flatten", <<>>)
    /\ pc' = "dense"
    /\ j' = 0
    /\ UNCHANGED <<i, result>>
    /\ ObjectUnchanged

\* The condition is false: straight on to the second loop.
SkipFlatten ==
    /\ pc = "conv"
    /\ ~ (i < Len(self.conv_config))
    /\ ~ (Len(self.dense_config) > 0)
    /\ pc' = "dense"
    /\ j' = 0
    /\ UNCHANGED <<x, i, trace, result, nh>>
    /\ ObjectUnchanged

\* Fault: the dense stages are built with the convolutional-phase toggles.
DenseStageConvToggles ==
    /\ pc = "dense"
    /\ j < Len(self.dense_config)
    /\ LET num_units == self.dense_config[j + 1]
       IN  Apply("DenselyConnected", [ units |-> num_units,
                                       batch_normalization |-> self.conv_batch_norm,
                                       dropout |-> self.conv_dropout,
                                       activation |-> self.conv_activation ])
    /\ j' = j + 1
    /\ UNCHANGED <<pc, i, result>>
    /\ ObjectUnchanged

\* Body of the second loop: for num_units in self.dense_config.
DenseStage ==
    /\ pc = "dense"
    /\ j < Len(self.dense_config)
    /\ LET num_units == self.dense_config[j + 1]
       IN  Apply("DenselyConnected", [ units |-> num_units,
                                       batch_normalization |-> self.dense_batch_norm,
                                       dropout |-> self.dense_dropout,
                                       activation |-> self.dense_activation ])
    /\ j' = j + 1
    /\ UNCHANGED <<pc, i, result>>
    /\ ObjectUnchanged

VGGLoopsDone ==
    /\ pc = "dense"
    /\ ~ (j < Len(self.dense_config))
    /\ pc' = "return"
    /\ UNCHANGED <<x, i, j, trace, result, nh>>
    /\ ObjectUnchanged

\* return x (both classes)
Return ==
    /\ pc = "return"
    /\ result' = x
    /\ pc' = "done"
    /\ UNCHANGED <<x, i, j, trace, nh>>
    /\ ObjectUnchanged

---------------------------------------------------------------------------
(* Specifications *)

Construct ==
    \/ NewGeneralizedDenseNets
    \/ NewDenseNet121
    \/ NewDenseNet169
    \/ NewDenseNet201
    \/ NewGeneralizedVGG
    \/ NewVGG16
    \/ NewVGG19

DenseNetStep ==
    \/ StemPad1
    \/ StemConv
    \/ StemBatchNorm
    \/ StemActivation
    \/ StemPad2
    \/ StemPool
    \/ GrowthBlock
    \/ TransitionBlock
    \/ FinalBatchNorm
    \/ FinalActivation

VGGStep ==
    \/ ConvStage
    \/ FlattenStep
    \/ SkipFlatten
    \/ DenseStage
    \/ VGGLoopsDone

Next ==
    \/ Construct
    \/ Call
    \/ DenseNetStep
    \/ VGGStep
    \/ Return

Spec == Init /\ [][Next]_vars

TypeOK ==
    /\ cls \in {"None"} \cup DenseNetClasses \cup VGGClasses
    /\ pc \in {"new", "idle", "stem_pad1", "stem_conv", "stem_bn", "stem_act",
               "stem_pad2", "stem_pool", "stages", "final_act", "conv", "dense",
               "return", "done"}
    /\ ncalls \in 0..MaxCalls
    /\ Len(prev) <= 1

---------------------------------------------------------------------------
(* Vocabulary of the properties *)

InCall == pc \notin {"new", "idle", "done"}
Done == pc = "done"

IsDenseNet == cls \in DenseNetClasses
IsVGG == cls \in VGGClasses

\* An application without its handles: which layer, built with which arguments.
Op(layer, args) == [ layer |-> layer, args |-> args ]
Ops(t) == [ k \in 1..Len(t) |-> Op(t[k].layer, t[k].args) ]
Layers(t) == [ k \in 1..Len(t) |-> t[k].layer ]
Positions(t, layer) == { k \in 1..Len(t) : t[k].layer = layer }
Count(t, layer) == Cardinality(Positions(t, layer))

RECURSIVE Sum(_)
Sum(s) == IF s = <<>> THEN 0 ELSE Head(s) + Sum(Tail(s))

NonNegative(s) == \A k \in 1..Len(s) : s[k] >= 0
IsPrefix(s, t) == Len(s) <= Len(t) /\ \A k \in 1..Len(s) : s[k] = t[k]
Repeat(e, n) == [ k \in 1..n |-> e ]

\* The trace is one chain: the first application takes the input handle, every
\* other one the handle returned by the application before it.
Chained(t, h) ==
    \A k \in 1..Len(t) : t[k].in = (IF k = 1 THEN h ELSE t[k - 1].out)

\* The handle at the end of the chain.
EndOf(t, h) == IF t = <<>> THEN h ELSE t[Len(t)].out

\* Stage specifications with a value the text calls invalid.
InvalidBlocks(s) == \E k \in 1..Len(s) : s[k] < 0
InvalidConv(s) == \E k \in 1..Len(s) : s[k][1] < 0 \/ s[k][2] <= 0
InvalidDense(s) == \E k \in 1..Len(s) : s[k] <= 0

InvalidSpec ==
    \/ IsDenseNet /\ InvalidBlocks(self.blocks)
    \/ IsVGG /\ (InvalidConv(self.conv_config) \/ InvalidDense(self.dense_config))

\* The block-repeating topology written as a recipe: stem, per stage its
\* growth blocks and one reduction block, tail.
StemOps(h) ==
    << Op("ZeroPadding2D", [ padding |-> << <<3, 3>>, <<3, 3>> >> ]),
       Op("Conv2D", [ filters |-> 64, kernel_size |-> 7, strides |-> 2,
                      use_bias |-> h.use_bias ]),
       Op("BatchNormalization", [ epsilon |-> h.epsilon ]),
       Op("Activation", [ activation |-> h.activation ]),
       Op("ZeroPadding2D", [ padding |-> << <<1, 1>>, <<1, 1>> >> ]),
       Op("MaxPooling2D", [ pool_size |-> 3, strides |-> 2 ]) >>

TailOps(h) ==
    << Op("BatchNormalization", [ epsilon |-> h.epsilon ]),
       Op("Activation", [ activation |-> h.activation ]) >>

RECURSIVE StageOps(_, _)
StageOps(s, h) ==
    IF s = <<>> THEN <<>>
    ELSE Repeat(Op("DenseNetConvolutionBlock", [ growth_rate |-> h.growth_rate ]), Head(s))
         \o << Op("DenseNetTransitionBlock", [ reduction |-> h.reduction ]) >>
         \o StageOps(Tail(s), h)

BlockRepeatingOps(s, h) == StemOps(h) \o StageOps(s, h) \o TailOps(h)

---------------------------------------------------------------------------
(* Properties of the block-repeating builder *)

\* C1: a completed invocation of GeneralizedDenseNets.__call__ on a sequence
\* of non-negative repeat counts has applied exactly Len(blocks) reduction
\* blocks and exactly Sum(blocks) growth blocks, and the last stage too is
\* followed by its reduction block (it is the application right before the
\* final BatchNormalization and Activation).
C1_BlockCounts ==
    (Done /\ IsDenseNet /\ NonNegative(self.blocks)) =>
        /\ cls = "GeneralizedDenseNets" => self.blocks = ctor.blocks
        /\ Count(trace, "DenseNetTransitionBlock") = Len(self.blocks)
        /\ Count(trace, "DenseNetConvolutionBlock") = Sum(self.blocks)
        /\ Len(self.blocks) > 0 =>
             trace[Len(trace) - 2].layer = "DenseNetTransitionBlock"

C1_Witness ==
    /\ Done
    /\ cls = "GeneralizedDenseNets"
    /\ Len(self.blocks) = 2
    /\ NonNegative(self.blocks)
    /\ Sum(self.blocks) >= 3
    /\ Count(trace, "DenseNetTransitionBlock") = 2

\* C7: with an empty repeat-count sequence the invocation never gets stuck
\* (in every state of the call a next step is possible) and, completed, has
\* applied exactly the six stem operations followed by BatchNormalization and
\* Activation; no growth block and no reduction block is ever applied.
C7_EmptyBlocks ==
    (IsDenseNet /\ self.blocks = <<>>) =>
        /\ InCall => ENABLED (DenseNetStep \/ Return)
        /\ Count(trace, "DenseNetConvolutionBlock") = 0
        /\ Count(trace, "DenseNetTransitionBlock") = 0
        /\ Done => /\ Len(trace) = 8
                   /\ Ops(trace) = StemOps(self) \o TailOps(self)
                   /\ result = trace[8].out

C7_Witness ==
    /\ Done
    /\ cls = "GeneralizedDenseNets"
    /\ ctor.blocks = <<>>
    /\ Len(trace) = 8

\* C9: at every moment of an invocation of GeneralizedDenseNets.__call__ on
\* non-negative repeat counts the applications made so far are a prefix of
\* stem, then per stage in increasing order blocks[i] growth blocks and one
\* reduction block, then BatchNormalization and Activation; they form one
\* chain from the input handle, each taking the output of the one before; the
\* completed invocation has made all of them and returns the last output.
C9_LinearChain ==
    (IsDenseNet /\ ncalls > 0 /\ NonNegative(self.blocks)) =>
        /\ IsPrefix(Ops(trace), BlockRepeatingOps(self.blocks, self))
        /\ Chained(trace, inputs)
        /\ x = EndOf(trace, inputs)
        /\ Done => /\ Len(trace) = Len(BlockRepeatingOps(self.blocks, self))
                   /\ result = EndOf(trace, inputs)

C9_Witness ==
    /\ Done
    /\ cls = "GeneralizedDenseNets"
    /\ Len(self.blocks) = 2
    /\ self.blocks[1] = 0
    /\ self.blocks[2] > 0
    /\ Layers(trace)[7] = "DenseNetTransitionBlock"
    /\ Layers(trace)[8] = "DenseNetConvolutionBlock"

\* C5: each DenseNet preset holds, whatever hyperparameters it is constructed
\* with, exactly the fields GeneralizedDenseNets holds when constructed with
\* the preset's repeat counts and the same hyperparameters, and its completed
\* invocation has applied the operations of that generic builder, with the
\* same parameters, in the same order.
PresetBlocks ==
    [ DenselyConnectedConvolutionalNetwork121 |-> <<6, 12, 24, 16>>,
      DenselyConnectedConvolutionalNetwork169 |-> <<6, 12, 32, 32>>,
      DenselyConnectedConvolutionalNetwork201 |-> <<6, 12, 48, 32>> ]

C5_PresetEquivalence ==
    (IsDenseNet /\ cls # "GeneralizedDenseNets") =>
        /\ ctor \in DenseNetHyper
        /\ self = [ blocks |-> PresetBlocks[cls],
                    growth_rate |-> ctor.growth_rate,
                    reduction |-> ctor.reduction,
                    epsilon |-> ctor.epsilon,
                    activation |-> ctor.activation,
                    use_bias |-> ctor.use_bias ]
        /\ Done => Ops(trace) = BlockRepeatingOps(PresetBlocks[cls], ctor)

C5_Witness ==
    /\ Done
    /\ cls = "DenselyConnectedConvolutionalNetwork169"
    /\ ctor.growth_rate = 12
    /\ Count(trace, "DenseNetConvolutionBlock") = 82
    /\ Count(trace, "DenseNetTransitionBlock") = 4

---------------------------------------------------------------------------
(* Properties of the stage-sequential builder *)

\* The stage sequences and toggles the builder was constructed with.
GivenConv == IF cls = "GeneralizedVGG" THEN ctor.conv_config ELSE self.conv_config
GivenDense == IF cls = "GeneralizedVGG" THEN ctor.dense_config ELSE self.dense_config

\* C2: a completed invocation of GeneralizedVGG.__call__ on a sequence C of m
\* (repeat-count, width) pairs has applied exactly m VGGModule modules, as its
\* first m applications; the k-th was built with the repeat-count and width of
\* the k-th pair and the convolutional-phase toggles, the first takes the
\* input handle and each other one the output of the module before it.
C2_ConvStages ==
    (Done /\ IsVGG) =>
        LET C == GivenConv
            m == Len(C)
        IN  /\ Positions(trace, "VGGModule") = 1..m
            /\ \A k \in 1..m :
                 trace[k].args = [ num_conv |-> C[k][1],
                                   num_filters |-> C[k][2],
                                   batch_normalization |-> ctor.toggles.conv_batch_norm,
                                   dropout |-> ctor.toggles.conv_dropout,
                                   activation |-> ctor.toggles.conv_activation ]
            /\ Chained(SubSeq(trace, 1, m), inputs)

C2_Witness ==
    /\ Done
    /\ cls = "GeneralizedVGG"
    /\ ctor.conv_config = << <<2, 64>>, <<3, 0>> >>
    /\ ctor.toggles.conv_batch_norm
    /\ Count(trace, "VGGModule") = 2

\* C8: a completed invocation of GeneralizedVGG.__call__ on a dense-stage
\* sequence D of k widths has applied exactly k DenselyConnected modules, as
\* its last k applications (so after every VGGModule); the j-th was built with
\* the j-th width and the dense-phase toggles, each takes the output of the
\* application before it, and the last one's output is the result.
C8_DenseStages ==
    (Done /\ IsVGG) =>
        LET D == GivenDense
            k == Len(D)
            base == Len(trace) - k
        IN  /\ base >= 0
            /\ Positions(trace, "DenselyConnected") = (base + 1)..Len(trace)
            /\ \A p \in Positions(trace, "VGGModule") : p <= base
            /\ \A n \in 1..k :
                 /\ trace[base + n].args =
                        [ units |-> D[n],
                          batch_normalization |-> ctor.toggles.dense_batch_norm,
                          dropout |-> ctor.toggles.dense_dropout,
                          activation |-> ctor.toggles.dense_activation ]
                 /\ trace[base + n].in = trace[base + n - 1].out
            /\ k > 0 => result = trace[Len(trace)].out

C8_Witness ==
    /\ Done
    /\ cls = "GeneralizedVGG"
    /\ ctor.dense_config = <<4096, 0>>
    /\ ctor.conv_config # <<>>
    /\ ctor.toggles.conv_batch_norm # ctor.toggles.dense_batch_norm
    /\ ctor.toggles.conv_activation # ctor.toggles.dense_activation
    /\ Count(trace, "DenselyConnected") = 2

\* C3: in GeneralizedVGG.__call__ Flatten is never applied when the dense-stage
\* sequence is empty and at most once otherwise, and only as the application
\* right after the last convolutional stage, taking its output (the input
\* handle when there is no convolutional stage), before any dense stage.  The
\* completed invocation has applied it exactly once iff the dense-stage
\* sequence is non-empty; with an empty one it has applied no dense stage
\* either and returns the output of the last convolutional stage (the input
\* handle when there is none).
C3_Flatten ==
    IsVGG =>
        LET m == Len(self.conv_config)
            F == Positions(trace, "Flatten")
        IN  /\ F \subseteq (IF Len(self.dense_config) > 0 THEN {m + 1} ELSE {})
            /\ \A p \in F : trace[p].in = EndOf(SubSeq(trace, 1, m), inputs)
            /\ \A p \in Positions(trace, "DenselyConnected") : m + 1 \in F /\ p > m + 1
            /\ Done =>
                 /\ (F # {}) <=> (Len(self.dense_config) > 0)
                 /\ Len(self.dense_config) = 0 =>
                      /\ Count(trace, "DenselyConnected") = 0
                      /\ Len(trace) = m
                      /\ result = EndOf(trace, inputs)

C3_Witness ==
    /\ Done
    /\ cls = "GeneralizedVGG"
    /\ Len(self.conv_config) = 2
    /\ Len(self.dense_config) = 2
    /\ Layers(trace)[3] = "Flatten"
    /\ Count(trace, "Flatten") = 1

\* C6: VGG16 holds five convolutional stages with repeat counts 2,2,3,3,3 and
\* widths 64,128,256,512,512, VGG19 the same with repeat counts 2,2,4,4,4.
\* With use_dense a completed invocation has applied the five VGGModule
\* modules with these values, then exactly one Flatten, then exactly two
\* DenselyConnected modules of 4096 units; without use_dense it has applied
\* the five VGGModule modules and neither Flatten nor a dense stage.
PresetConv ==
    [ VGG16 |-> << <<2, 64>>, <<2, 128>>, <<3, 256>>, <<3, 512>>, <<3, 512>> >>,
      VGG19 |-> << <<2, 64>>, <<2, 128>>, <<4, 256>>, <<4, 512>>, <<4, 512>> >> ]

C6_VGGPresets ==
    (IsVGG /\ cls # "GeneralizedVGG") =>
        /\ self.conv_config = PresetConv[cls]
        /\ self.kwargs = ctor.kwargs
        /\ Done =>
             /\ Layers(trace) =
                  Repeat("VGGModule", 5) \o
                  (IF ctor.use_dense
                     THEN <<"Flatten", "DenselyConnected", "DenselyConnected">>
                     ELSE <<>>)
             /\ \A k \in 1..5 :
                  /\ trace[k].args.num_conv = PresetConv[cls][k][1]
                  /\ trace[k].args.num_filters = PresetConv[cls][k][2]
             /\ \A k \in 6..Len(trace) :
                  trace[k].layer = "DenselyConnected" => trace[k].args.units = 4096

C6_Witness ==
    /\ Done
    /\ cls = "VGG19"
    /\ ctor.use_dense
    /\ Len(trace) = 8
    /\ trace[3].args.num_conv = 4

---------------------------------------------------------------------------
(* Properties of both builders *)

\* The stage specification handed to the constructor has an invalid value.
InvalidGiven ==
    \/ cls = "GeneralizedDenseNets" /\ InvalidBlocks(ctor.blocks)
    \/ cls = "GeneralizedVGG" /\ (InvalidConv(ctor.conv_config) \/ InvalidDense(ctor.dense_config))

Max0(n) == IF n < 0 THEN 0 ELSE n
RECURSIVE SumMax0(_)
SumMax0(s) == IF s = <<>> THEN 0 ELSE Max0(Head(s)) + SumMax0(Tail(s))

\* C4 as stated: a negative repeat-count or a non-positive width in the stage
\* specification makes construction fail before any layer is invoked: no
\* builder object exists for such a specification and nothing was applied.
C4_InvalidRejected ==
    InvalidGiven => (cls = "None" /\ trace = <<>>)

\* C4 as amended: nothing validates the stage specification.  Construction
\* with a negative repeat-count or a non-positive width succeeds and stores
\* the specification unchanged.  Invoked, GeneralizedDenseNets applies the
\* stem and treats a negative repeat-count as zero (no growth block, one
\* reduction block for that stage); GeneralizedVGG builds every VGGModule and
\* DenselyConnected it applies with the repeat-count and width of its stage,
\* unchanged.
C4_NoValidation ==
    InvalidGiven =>
        /\ cls # "None"
        /\ cls = "GeneralizedDenseNets" =>
             /\ self.blocks = ctor.blocks
             /\ Count(trace, "DenseNetConvolutionBlock") <= SumMax0(ctor.blocks)
             /\ Done => /\ IsPrefix(StemOps(self), Ops(trace))
                        /\ Count(trace, "DenseNetConvolutionBlock") = SumMax0(ctor.blocks)
                        /\ Count(trace, "DenseNetTransitionBlock") = Len(ctor.blocks)
        /\ cls = "GeneralizedVGG" =>
             /\ self.conv_config = ctor.conv_config
             /\ self.dense_config = ctor.dense_config
             /\ \A k \in Positions(trace, "VGGModule") :
                  /\ k <= Len(ctor.conv_config)
                  /\ trace[k].args.num_conv = ctor.conv_config[k][1]
                  /\ trace[k].args.num_filters = ctor.conv_config[k][2]
             /\ \A k \in Positions(trace, "DenselyConnected") :
                  LET n == k - Len(ctor.conv_config) - 1
                  IN  /\ n \in 1..Len(ctor.dense_config)
                      /\ trace[k].args.units = ctor.dense_config[n]
             /\ Done => /\ Count(trace, "VGGModule") = Len(ctor.conv_config)
                        /\ Count(trace, "DenselyConnected") = Len(ctor.dense_config)

C4_Witness ==
    /\ Done
    /\ cls = "GeneralizedDenseNets"
    /\ ctor.blocks = <<0 - 1, 2>>
    /\ Count(trace, "DenseNetConvolutionBlock") = 2
    /\ Count(trace, "DenseNetTransitionBlock") = 2

\* C10: no step after construction changes the class or a field of the
\* builder, in whatever number of invocations; and an invocation that
\* completes on the input handle of the invocation before it has applied the
\* same layers with the same arguments in the same order.
C10_Step ==
    /\ cls # "None" => (cls' = cls /\ self' = self /\ ctor' = ctor)
    /\ (pc' = "done" /\ prev' # <<>> /\ prev'[1].inputs = inputs') =>
           Ops(trace') = Ops(prev'[1].trace)

C10_ConfigurationImmutable == [][C10_Step]_vars

C10_Witness ==
    /\ Done
    /\ ncalls = 2
    /\ prev # <<>>
    /\ prev[1].inputs = inputs
    /\ Len(trace) > 8
    /\ Ops(trace) = Ops(prev[1].trace)

=============================================================================
